---- MODULE Spec2Model ----
(***************************************************************************)
(* A model of src/src/matthes_seitz_catalog/scraper.py: the URL collector  *)
(* (collect_urls), the detail scraper (scrape_books), the orchestration    *)
(* (scrape_catalog) and the command line's exit (main).                    *)
(*                                                                         *)
(* The web is the environment.  Every call of requests.get and of          *)
(* time.sleep is appended to the history variable log, in call order; a    *)
(* request's outcome (a RequestException, or a page) is chosen when the    *)
(* request is made.                                                        *)
(*                                                                         *)
(* Python's Optional values are modelled as sequences of length at most    *)
(* one: None is <<>>, a value v is <<v>>.                                  *)
(***************************************************************************)
EXTENDS Integers, Sequences, FiniteSets, TLC

\* ------------------------------------------------------------------------
\* Bounds of the model
\* ------------------------------------------------------------------------

\* --limit values range over None and 0..MaxLimit.
MaxLimit == 2

\* The site lists at most MaxBooks items (li.item.item_product) over all the
\* catalog pages it serves in one run; scrape_books' input has at most
\* MaxBooks entries.
MaxBooks == 2

\* ------------------------------------------------------------------------
\* Program constants
\* ------------------------------------------------------------------------

ALL_IMPRINTS == <<"matthes-seitz-berlin", "friedenauer-presse", "august-verlag">>

\* "24 items per page" (if total > 24; (total + 23) // 24)
PAGE_SIZE == 24

\* time.sleep(1.0) before a paginated catalog fetch, in ms
CATALOG_DELAY == 1000

\* time.sleep(0.5) between detail fetches, in ms
DETAIL_DELAY == 500

None == <<>>
Some(v) == <<v>>

Min(a, b) == IF a <= b THEN a ELSE b

\* ------------------------------------------------------------------------
\* State
\* ------------------------------------------------------------------------

VARIABLES
    pc,         \* where the program is
    imprints,   \* collect_urls: the imprints iterated (after the None default)
    limit,      \* collect_urls: limit, None or Some(n)
    i,          \* collect_urls: position in imprints of the for loop (1-based)
    total,      \* collect_urls: pager total of the current imprint
    num_pages,  \* collect_urls: (total + 23) // 24 of the current imprint
    page_idx,   \* collect_urls: the pagination loop's page_idx
    all_books,  \* collect_urls: the accumulated entries
    book_urls,  \* what collect_urls returned / scrape_books' argument
    k,          \* scrape_books: the enumerate index (1-based)
    results,    \* scrape_books: the records
    books,      \* what scrape_books returned
    exit_code,  \* main: None while running, Some(0) or Some(1) at exit
    written,    \* main: whether the JSON output was written
    log,        \* history: the requests.get and time.sleep calls, in order
    run,        \* 1, or 2 in a second call of collect_urls on the same web
    ref         \* the first call's limit, result and log, once it returned

vars == <<pc, imprints, limit, i, total, num_pages, page_idx, all_books,
          book_urls, k, results, books, exit_code, written, log, run, ref>>

\* ------------------------------------------------------------------------
\* The web: what a request can return
\* ------------------------------------------------------------------------

BASE_URL == "https://www.matthes-seitz-berlin.de"

\* A pager text is a sequence of characters.
Digits == {"0", "1", "2", "3", "4", "5", "6", "7", "8", "9"}

DigitVal(c) ==
    CASE c = "0" -> 0 [] c = "1" -> 1 [] c = "2" -> 2 [] c = "3" -> 3
      [] c = "4" -> 4 [] c = "5" -> 5 [] c = "6" -> 6 [] c = "7" -> 7
      [] c = "8" -> 8 [] c = "9" -> 9

\* The pager texts the site serves in div#listpager p: no number, 24 written
\* with a separator dot, 25, and 50 followed by more text.
PagerTexts ==
    { <<"A", "n", "z", ":">>,
      <<"A", "n", "z", ":", " ", "2", ".", "4">>,
      <<"A", "n", "z", ":", " ", "2", "5">>,
      <<"A", "n", "z", ":", " ", "5", "0", " ", "T", ".">> }

\* The href of the j-th listed item of page p of imprint slug: odd items are
\* relative links with a tracking query, even items are absolute.
ItemHref(slug, p, j) ==
    [base  |-> IF j % 2 = 1 THEN "" ELSE BASE_URL,
     path  |-> <<slug, p, j>>,
     query |-> IF j % 2 = 1 THEN "?lid=1" ELSE ""]

\* A listing of n items (li.item.item_product); the item at position skip,
\* if any, has no h3.title a link with an href.
Listing(slug, p, n, skip) ==
    [j \in 1..n |-> IF j = skip THEN None ELSE Some(ItemHref(slug, p, j))]

Listings(slug, p, budget) ==
    { Listing(slug, p, n, skip) : n \in 0..budget, skip \in {0, 1} }

\* The pages a catalog URL can serve.  The code reads the pager of a first
\* page only (lines 91-96); paginated pages are served without one.
CatalogPages(slug, p, budget) ==
    { [pager |-> pg, listing |-> l] :
        pg \in (IF p = 0 THEN {None} \cup {Some(t) : t \in PagerTexts} ELSE {None}),
        l \in Listings(slug, p, budget) }

NoPage == [pager |-> None, listing |-> <<>>]

\* A detail page has an h1.title or not; the optional fields of a record are
\* not modelled.
DetailPages == { [title |-> None], [title |-> Some("Titel")] }

NoDetailPage == [title |-> None]

\* ------------------------------------------------------------------------
\* History of the calls made to the environment
\* ------------------------------------------------------------------------

\* requests.get(catalog_url or page_url): pos is the for loop's position in
\* imprints, p the page index (0 for the first page, which has no ?p=).
CatalogGet(pos, slug, p, ok, page) ==
    [op |-> "get", kind |-> "catalog", pos |-> pos, imprint |-> slug, p |-> p,
     ok |-> ok, page |-> page]

\* requests.get(url) of a detail page: pos is the position in book_urls.
DetailGet(pos, entry, ok, page) ==
    [op |-> "get", kind |-> "detail", pos |-> pos, entry |-> entry,
     ok |-> ok, page |-> page]

Sleep(ms) == [op |-> "sleep", ms |-> ms]

IsCatalogGet(e) == e.op = "get" /\ e.kind = "catalog"
IsDetailGet(e) == e.op = "get" /\ e.kind = "detail"
IsSleep(e) == e.op = "sleep"

\* The number of items the catalog pages served so far have listed.
RECURSIVE ItemsServed(_)
ItemsServed(h) ==
    IF h = <<>> THEN 0
    ELSE LET e == h[Len(h)]
         IN  ItemsServed(SubSeq(h, 1, Len(h) - 1))
             + (IF IsCatalogGet(e) /\ e.ok THEN Len(e.page.listing) ELSE 0)

\* ------------------------------------------------------------------------
\* Pure functions of the program
\* ------------------------------------------------------------------------

\* re.search(r"(\d[\d.]*)", text): the leftmost digit and the longest run of
\* digits and dots that follows it; <<>> when there is no digit.
RECURSIVE MatchEnd(_, _)
MatchEnd(text, e) ==
    IF e < Len(text) /\ text[e + 1] \in Digits \cup {"."}
    THEN MatchEnd(text, e + 1)
    ELSE e

SearchNumber(text) ==
    LET starts == { j \in 1..Len(text) : text[j] \in Digits }
    IN  IF starts = {} THEN <<>>
        ELSE LET s == CHOOSE j \in starts : \A j2 \in starts : j <= j2
             IN  SubSeq(text, s, MatchEnd(text, s))

\* m.group(1).replace(".", "")
RemoveDots(t) == SelectSeq(t, LAMBDA c : c # ".")

\* int(...) of a sequence of digits
RECURSIVE ToInt(_)
ToInt(t) ==
    IF t = <<>> THEN 0
    ELSE 10 * ToInt(SubSeq(t, 1, Len(t) - 1)) + DigitVal(t[Len(t)])

\* Lines 91-96: the total of the pager, 0 when the pager is absent or holds
\* no number.
PagerTotal(page) ==
    IF page.pager = None THEN 0
    ELSE LET m == SearchNumber(page.pager[1])
         IN  IF m = <<>> THEN 0 ELSE ToInt(RemoveDots(m))

\* Mutant: the number of pages rounded down.
NumPagesFloor(t) == t \div PAGE_SIZE

\* Line 108: num_pages = (total + 23) // 24
NumPages(t) == (t + (PAGE_SIZE - 1)) \div PAGE_SIZE

\* Lines 141-146: urljoin for a relative href, the query string stripped.
NormalizeHref(href) == [base |-> BASE_URL, path |-> href.path, query |-> ""]

MakeEntry(href, imprint) == [url |-> NormalizeHref(href), imprint |-> imprint]

\* Mutant: the entries of a page in reverse listing order.
RECURSIVE ExtractUrlsReversed(_, _)
ExtractUrlsReversed(listing, imprint) ==
    IF listing = <<>> THEN <<>>
    ELSE LET item == listing[1]
             rest == ExtractUrlsReversed(Tail(listing), imprint)
         IN  IF item = None THEN rest
             ELSE Append(rest, MakeEntry(item[1], imprint))

\* _extract_urls_from_page: one entry per item with a link, in listing order.
RECURSIVE ExtractUrls(_, _)
ExtractUrls(listing, imprint) ==
    IF listing = <<>> THEN <<>>
    ELSE LET item == listing[Len(listing)]
             front == ExtractUrls(SubSeq(listing, 1, Len(listing) - 1), imprint)
         IN  IF item = None THEN front
             ELSE Append(front, MakeEntry(item[1], imprint))

\* Mutant: "if limit is not None".
TruthyNotNone(l) == l # None

\* "if limit": None and 0 are falsy.
Truthy(l) == l # None /\ l[1] # 0

\* "limit and len(all_books) >= limit"
LimitReached(l, bs) == Truthy(l) /\ Len(bs) >= l[1]

\* all_books[:limit] for a limit >= 0
Slice(bs, n) == SubSeq(bs, 1, Min(n, Len(bs)))

\* Mutant: the list returned untruncated when the for loop ends.
FinalResultUnsliced(l, bs) == bs

\* Lines 130-132: the value returned when the for loop ends.
FinalResult(l, bs) == IF Truthy(l) THEN Slice(bs, l[1]) ELSE bs

\* _parse_detail_page: None without an h1.title, else the record.
ParseDetailPage(page, url, imprint) ==
    IF page.title = None THEN None
    ELSE Some([url |-> url, imprint |-> imprint, title |-> page.title[1]])


\* ------------------------------------------------------------------------
\* Initial states
\* ------------------------------------------------------------------------

\* --imprints: absent (None), or one or more of the choices ALL_IMPRINTS,
\* repetitions allowed (nargs="+").
ImprintArgs ==
    { None,
      Some(<<"friedenauer-presse">>),
      Some(<<"matthes-seitz-berlin", "friedenauer-presse">>),
      Some(<<"friedenauer-presse", "friedenauer-presse">>) }

\* --limit: absent (None) or an integer.
LimitArgs == {None} \cup { Some(n) : n \in 0..MaxLimit }

\* Lines 72-73: imprints defaults to ALL_IMPRINTS.
ImprintsOrDefault(arg) == IF arg = None THEN ALL_IMPRINTS ELSE arg[1]

\* The locals of collect_urls at its first loop iteration.
CollectStart(imps, lim) ==
    /\ pc = "first"
    /\ imprints = imps
    /\ limit = lim
    /\ i = 1
    /\ total = 0
    /\ num_pages = 0
    /\ page_idx = 0
    /\ all_books = <<>>
    /\ book_urls = <<>>

NotScraping ==
    /\ k = 0
    /\ results = <<>>
    /\ books = <<>>
    /\ exit_code = None
    /\ written = FALSE

\* A run of the command line: the arguments are parsed and scrape_catalog
\* has called collect_urls.  The runs of the whole program are those with an
\* explicit --imprints list; the default is covered by SpecCollect.
Init ==
    /\ \E ia \in ImprintArgs \ {None}, la \in LimitArgs :
           CollectStart(ImprintsOrDefault(ia), la)
    /\ NotScraping
    /\ log = <<>>
    /\ run = 1
    /\ ref = None

\* A call collect_urls(imprints, limit).
InitCollect ==
    /\ \E ia \in ImprintArgs, la \in LimitArgs :
           CollectStart(ImprintsOrDefault(ia), la)
    /\ NotScraping
    /\ log = <<>>
    /\ run = 1
    /\ ref = None

\* A call collect_urls(imprints), with no limit, that a second call on the
\* same web will follow.
InitPair ==
    /\ \E ia \in ImprintArgs \ {None} : CollectStart(ImprintsOrDefault(ia), None)
    /\ NotScraping
    /\ log = <<>>
    /\ run = 1
    /\ ref = None

\* The entries scrape_books is called with, when called on its own.
SampleEntries ==
    { MakeEntry(ItemHref("friedenauer-presse", 0, 1), "friedenauer-presse"),
      MakeEntry(ItemHref("friedenauer-presse", 0, 2), "friedenauer-presse"),
      MakeEntry(ItemHref("friedenauer-presse", 0, 1), "august-verlag") }

SeqsUpTo(S, n) == UNION { [1..m -> S] : m \in 0..n }

\* A call scrape_books(book_urls).
InitScrape ==
    /\ pc = "scrape"
    /\ book_urls \in SeqsUpTo(SampleEntries, MaxBooks)
    /\ k = 1
    /\ results = <<>>
    /\ books = <<>>
    /\ exit_code = None
    /\ written = FALSE
    /\ imprints = <<>>
    /\ limit = None
    /\ i = 1
    /\ total = 0
    /\ num_pages = 0
    /\ page_idx = 0
    /\ all_books = <<>>
    /\ log = <<>>
    /\ run = 1
    /\ ref = None

\* ------------------------------------------------------------------------
\* collect_urls
\* ------------------------------------------------------------------------

\* What the request for page p of the imprint at position pos can return: an
\* error (ok = FALSE) or a page.  A second call of collect_urls on the same
\* web (run = 2) is served what the first call was served.
CatalogResponses(pos, p) ==
    LET slug == imprints[pos]
        before == IF ref = None THEN {}
                  ELSE { n \in 1..Len(ref[1].log) :
                           /\ IsCatalogGet(ref[1].log[n])
                           /\ ref[1].log[n].pos = pos
                           /\ ref[1].log[n].p = p }
    IN  IF run = 2 /\ before # {}
        THEN { [ok |-> ref[1].log[n].ok, page |-> ref[1].log[n].page] : n \in before }
        ELSE {[ok |-> FALSE, page |-> NoPage]} \cup
             { [ok |-> TRUE, page |-> pg] :
                 pg \in CatalogPages(slug, p, MaxBooks - ItemsServed(log)) }

\* Lines 81-86: the first page of imprints[i] cannot be fetched; the imprint
\* is skipped.
FirstPageFails ==
    /\ pc = "first"
    /\ i <= Len(imprints)
    /\ \E r \in CatalogResponses(i, 0) :
          /\ ~r.ok
          /\ log' = Append(log, CatalogGet(i, imprints[i], 0, FALSE, r.page))
    /\ i' = i + 1
    /\ UNCHANGED <<pc, imprints, limit, total, num_pages, page_idx, all_books,
                   book_urls, k, results, books, exit_code, written, run, ref>>

\* Lines 81-111: the first page of imprints[i] is fetched; its total is read,
\* its URLs are appended, and the function returns (limit reached), enters
\* the pagination loop (total > 24) or goes on to the next imprint.
FirstPageOk ==
    /\ pc = "first"
    /\ i <= Len(imprints)
    /\ \E r \in CatalogResponses(i, 0) :
          /\ r.ok
          /\ LET t == PagerTotal(r.page)
                 bs == all_books \o ExtractUrls(r.page.listing, imprints[i])
             IN  /\ log' = Append(log, CatalogGet(i, imprints[i], 0, TRUE, r.page))
                 /\ total' = t
                 /\ all_books' = bs
                 /\ IF LimitReached(limit, bs)
                    THEN /\ book_urls' = Slice(bs, limit[1])
                         /\ pc' = "collected"
                         /\ UNCHANGED <<i, num_pages, page_idx>>
                    ELSE IF t > PAGE_SIZE
                    THEN /\ num_pages' = NumPages(t)
                         /\ page_idx' = 1
                         /\ pc' = IF 1 < NumPages(t) THEN "page" ELSE "first"
                         /\ i' = IF 1 < NumPages(t) THEN i ELSE i + 1
                         /\ UNCHANGED book_urls
                    ELSE /\ i' = i + 1
                         /\ UNCHANGED <<pc, num_pages, page_idx, book_urls>>
    /\ UNCHANGED <<imprints, limit, k, results, books, exit_code, written, run, ref>>

\* Lines 110-111: at the top of a pagination iteration the limit is reached.
PageLimitReturn ==
    /\ pc = "page"
    /\ LimitReached(limit, all_books)
    /\ book_urls' = Slice(all_books, limit[1])
    /\ pc' = "collected"
    /\ UNCHANGED <<imprints, limit, i, total, num_pages, page_idx, all_books,
                   k, results, books, exit_code, written, log, run, ref>>

\* Where the pagination loop goes after the iteration of page_idx: its next
\* iteration, or the next imprint when range(1, num_pages) is exhausted.
NextIteration ==
    IF page_idx + 1 < num_pages
    THEN /\ page_idx' = page_idx + 1
         /\ UNCHANGED <<pc, i>>
    ELSE /\ pc' = "first"
         /\ i' = i + 1
         /\ UNCHANGED page_idx

\* Lines 113-126: sleep, fetch page page_idx, append its URLs.
PageOk ==
    /\ pc = "page"
    /\ ~LimitReached(limit, all_books)
    /\ \E r \in CatalogResponses(i, page_idx) :
          /\ r.ok
          /\ log' = log \o <<Sleep(CATALOG_DELAY),
                            CatalogGet(i, imprints[i], page_idx, TRUE, r.page)>>
          /\ all_books' = all_books \o ExtractUrls(r.page.listing, imprints[i])
    /\ NextIteration
    /\ UNCHANGED <<imprints, limit, total, num_pages, book_urls,
                   k, results, books, exit_code, written, run, ref>>

\* Mutant: a failed page ends the pagination of its imprint.
PageFailsBreak ==
    /\ pc = "page"
    /\ ~LimitReached(limit, all_books)
    /\ \E r \in CatalogResponses(i, page_idx) :
          /\ ~r.ok
          /\ log' = log \o <<Sleep(CATALOG_DELAY),
                            CatalogGet(i, imprints[i], page_idx, FALSE, r.page)>>
    /\ pc' = "first"
    /\ i' = i + 1
    /\ UNCHANGED <<imprints, limit, total, num_pages, page_idx, all_books,
                   book_urls, k, results, books, exit_code, written, run, ref>>

\* Lines 113-117, 127-128: sleep, the fetch of page page_idx fails; the page
\* is skipped.
PageFails ==
    /\ pc = "page"
    /\ ~LimitReached(limit, all_books)
    /\ \E r \in CatalogResponses(i, page_idx) :
          /\ ~r.ok
          /\ log' = log \o <<Sleep(CATALOG_DELAY),
                            CatalogGet(i, imprints[i], page_idx, FALSE, r.page)>>
    /\ NextIteration
    /\ UNCHANGED <<imprints, limit, total, num_pages, all_books, book_urls,
                   k, results, books, exit_code, written, run, ref>>

\* Lines 130-132: the for loop over imprints has ended.
CollectReturn ==
    /\ pc = "first"
    /\ i > Len(imprints)
    /\ book_urls' = FinalResult(limit, all_books)
    /\ pc' = "collected"
    /\ UNCHANGED <<imprints, limit, i, total, num_pages, page_idx, all_books,
                   k, results, books, exit_code, written, log, run, ref>>

\* ------------------------------------------------------------------------
\* scrape_catalog, scrape_books
\* ------------------------------------------------------------------------

\* scrape_catalog, line 298: scrape_books is called with what collect_urls
\* returned.
CallScrapeBooks ==
    /\ pc = "collected"
    /\ pc' = "scrape"
    /\ k' = 1
    /\ results' = <<>>
    /\ UNCHANGED <<imprints, limit, i, total, num_pages, page_idx, all_books,
                   book_urls, books, exit_code, written, log, run, ref>>

\* What the request for a detail page can return.
DetailResponses ==
    {[ok |-> FALSE, page |-> NoDetailPage]} \cup
    { [ok |-> TRUE, page |-> pg] : pg \in DetailPages }

\* Mutant: a record without title stands in for a failed fetch.
ResultsAfterPlaceholder(rs, entry, r) ==
    IF r.ok
    THEN (IF ParseDetailPage(r.page, entry.url, entry.imprint) # None
          THEN Append(rs, ParseDetailPage(r.page, entry.url, entry.imprint)[1])
          ELSE rs)
    ELSE Append(rs, [url |-> entry.url, imprint |-> entry.imprint, title |-> ""])

\* Line 177: results after the fetch of entry with response r.
ResultsAfter(rs, entry, r) ==
    IF r.ok /\ ParseDetailPage(r.page, entry.url, entry.imprint) # None
    THEN Append(rs, ParseDetailPage(r.page, entry.url, entry.imprint)[1])
    ELSE rs

\* Mutant: a sleep after every fetch, the last included.
SleepAfterAlways(idx, n) == <<Sleep(DETAIL_DELAY)>>

\* Lines 181-182: the calls that end the iteration of entry k of n.
SleepAfter(idx, n) == IF idx < n THEN <<Sleep(DETAIL_DELAY)>> ELSE <<>>

\* Lines 167-182: one iteration of the loop over book_urls.
ScrapeOne ==
    /\ pc = "scrape"
    /\ k <= Len(book_urls)
    /\ \E r \in DetailResponses :
          /\ results' = ResultsAfter(results, book_urls[k], r)
          /\ log' = log \o <<DetailGet(k, book_urls[k], r.ok, r.page)>>
                        \o SleepAfter(k, Len(book_urls))
    /\ k' = k + 1
    /\ UNCHANGED <<pc, imprints, limit, i, total, num_pages, page_idx, all_books,
                   book_urls, books, exit_code, written, run, ref>>

\* Line 184: return results.
ScrapeReturn ==
    /\ pc = "scrape"
    /\ k > Len(book_urls)
    /\ books' = results
    /\ pc' = "scraped"
    /\ UNCHANGED <<imprints, limit, i, total, num_pages, page_idx, all_books,
                   book_urls, k, results, exit_code, written, log, run, ref>>

\* ------------------------------------------------------------------------
\* main
\* ------------------------------------------------------------------------

\* Mutant: sys.exit(1) as soon as an entry yielded no record.
ExitOnAnyOmission ==
    /\ pc = "scraped"
    /\ Len(books) < Len(book_urls) \/ books = <<>>
    /\ exit_code' = Some(1)
    /\ pc' = "exit"
    /\ UNCHANGED <<imprints, limit, i, total, num_pages, page_idx, all_books,
                   book_urls, k, results, books, written, log, run, ref>>

\* Lines 407-409: no books, sys.exit(1).
ExitNoBooks ==
    /\ pc = "scraped"
    /\ books = <<>>
    /\ exit_code' = Some(1)
    /\ pc' = "exit"
    /\ UNCHANGED <<imprints, limit, i, total, num_pages, page_idx, all_books,
                   book_urls, k, results, books, written, log, run, ref>>

\* Lines 411-421: the JSON is written and main returns (exit code 0).
WriteAndExit ==
    /\ pc = "scraped"
    /\ books # <<>>
    /\ written' = TRUE
    /\ exit_code' = Some(0)
    /\ pc' = "exit"
    /\ UNCHANGED <<imprints, limit, i, total, num_pages, page_idx, all_books,
                   book_urls, k, results, books, log, run, ref>>

\* A second call of collect_urls, with the same imprints, some limit, on the
\* web the first call saw.
CallAgain ==
    /\ pc = "collected"
    /\ run = 1
    /\ ref' = Some([limit |-> limit, result |-> book_urls, log |-> log])
    /\ run' = 2
    /\ \E n \in 0..MaxLimit : limit' = Some(n)
    /\ pc' = "first"
    /\ i' = 1
    /\ total' = 0
    /\ num_pages' = 0
    /\ page_idx' = 0
    /\ all_books' = <<>>
    /\ book_urls' = <<>>
    /\ log' = <<>>
    /\ UNCHANGED <<imprints, k, results, books, exit_code, written>>

Next ==
    \/ FirstPageFails
    \/ FirstPageOk
    \/ PageLimitReturn
    \/ PageOk
    \/ PageFails
    \/ CollectReturn
    \/ CallScrapeBooks
    \/ ScrapeOne
    \/ ScrapeReturn
    \/ ExitNoBooks
    \/ WriteAndExit

NextCollect ==
    \/ FirstPageFails
    \/ FirstPageOk
    \/ PageLimitReturn
    \/ PageOk
    \/ PageFails
    \/ CollectReturn

NextPair ==
    \/ FirstPageFails
    \/ FirstPageOk
    \/ PageLimitReturn
    \/ PageOk
    \/ PageFails
    \/ CollectReturn
    \/ CallAgain

NextScrape ==
    \/ ScrapeOne
    \/ ScrapeReturn

\* The whole program.
Spec == Init /\ [][Next]_vars

\* collect_urls alone.
SpecCollect == InitCollect /\ [][NextCollect]_vars

\* collect_urls with no limit, then collect_urls with a limit on the same web.
SpecPair == InitPair /\ [][NextPair]_vars

\* scrape_books alone.
SpecScrape == InitScrape /\ [][NextScrape]_vars

\* ------------------------------------------------------------------------
\* Reading the history
\* ------------------------------------------------------------------------

\* The positions in h of the catalog requests.
CatalogGetsAt(h) == { n \in 1..Len(h) : IsCatalogGet(h[n]) }

\* The positions in h of the paginated requests for the imprint at pos.
PagedGetsAt(h, pos) == { n \in CatalogGetsAt(h) : h[n].pos = pos /\ h[n].p >= 1 }

\* The linked items of the pages fetched in h, in fetch order and listing
\* order: where each was listed, and its href.
RECURSIVE ListedIn(_, _, _)
ListedIn(e, j, acc) ==
    IF j > Len(e.page.listing) THEN acc
    ELSE ListedIn(e, j + 1,
                  IF e.page.listing[j] = None THEN acc
                  ELSE Append(acc, [pos |-> e.pos, p |-> e.p, j |-> j,
                                    href |-> e.page.listing[j][1]]))

RECURSIVE Origins(_)
Origins(h) ==
    IF h = <<>> THEN <<>>
    ELSE LET e == h[Len(h)]
             front == Origins(SubSeq(h, 1, Len(h) - 1))
         IN  IF IsCatalogGet(e) /\ e.ok THEN ListedIn(e, 1, front) ELSE front

\* The smallest n with n * b >= a.
CeilDiv(a, b) == CHOOSE n \in 0..a : n * b >= a /\ (n - 1) * b < a

\* The page indexes of the paginated requests for the imprint at pos, in
\* request order.
PagedIndexes(h, pos) ==
    LET gets == SelectSeq(h, LAMBDA e : IsCatalogGet(e) /\ e.pos = pos /\ e.p >= 1)
    IN  [n \in 1..Len(gets) |-> gets[n].p]

\* The successful first-page requests of h.
FirstPagesOkAt(h) == { n \in CatalogGetsAt(h) : h[n].p = 0 /\ h[n].ok }

\* ------------------------------------------------------------------------
\* Claims
\* ------------------------------------------------------------------------

\* C2 (as claimed): with a positive limit, no catalog request is made once
\* the accumulated URL list has reached the limit: before every catalog
\* request, fewer than limit URLs had been accumulated.
C2_NoFetchAfterLimit ==
    Truthy(limit) =>
        \A n \in CatalogGetsAt(log) :
            Len(Origins(SubSeq(log, 1, n - 1))) < limit[1]

\* C3: with no limit, once collect_urls has returned, an imprint whose first
\* page was fetched and reports total T got exactly the paginated requests
\* p = 1, ..., ceil(T/24) - 1, in that order, when T > 24, and none when
\* T <= 24 (an absent pager, or one with no number, counting as 0), whatever
\* the pages list.
C3_PaginationCount ==
    (pc = "collected" /\ ~Truthy(limit)) =>
        \A n \in FirstPagesOkAt(log) :
            LET T == PagerTotal(log[n].page)
                paged == PagedIndexes(log, log[n].pos)
            IN  /\ (log[n].page.pager = None => T = 0)
                /\ IF T > 24
                   THEN paged = [m \in 1..(CeilDiv(T, 24) - 1) |-> m]
                   ELSE paged = <<>>

\* C3 witness: an unlimited call has returned after a first page with total
\* 50 and exactly two paginated requests for that imprint, and after a first
\* page without a pager.
C3_Witness ==
    /\ pc = "collected"
    /\ ~Truthy(limit)
    /\ \E n \in FirstPagesOkAt(log) :
          /\ PagerTotal(log[n].page) = 50
          /\ PagedIndexes(log, log[n].pos) = <<1, 2>>
    /\ \E n \in FirstPagesOkAt(log) : log[n].page.pager = None


\* The entry collect_urls makes of a listed item.
EntryOf(o) == MakeEntry(o.href, imprints[o.pos])

\* A failed first-page request is followed by no paginated request for its
\* imprint position.
FailedImprintSkipped ==
    \A n \in CatalogGetsAt(log) :
        (log[n].p = 0 /\ ~log[n].ok) => PagedGetsAt(log, log[n].pos) = {}

\* The accumulated URLs are those of the pages fetched successfully, no more
\* and no less: a failed request adds none and removes none.
OnlyFetchedPagesCount ==
    all_books = [a \in 1..Len(Origins(log)) |-> EntryOf(Origins(log)[a])]

\* Absent a limit, a returned call has requested the first page of every
\* imprint position and, after a successful first page with total T > 24,
\* every page 1..ceil(T/24)-1, failures in between or not.
LaterWorkStillDone ==
    (pc = "collected" /\ ~Truthy(limit)) =>
        /\ \A pos \in 1..Len(imprints) :
              \E n \in CatalogGetsAt(log) : log[n].pos = pos /\ log[n].p = 0
        /\ \A n \in FirstPagesOkAt(log) :
              PagerTotal(log[n].page) > 24 =>
                  \A m \in 1..(CeilDiv(PagerTotal(log[n].page), 24) - 1) :
                      \E n2 \in PagedGetsAt(log, log[n].pos) : log[n2].p = m

\* No request is repeated for the same position in imprints and page index.
OncePerPosition ==
    \A a, b \in CatalogGetsAt(log) :
        (log[a].pos = log[b].pos /\ log[a].p = log[b].p) => a = b

\* No catalog URL (imprint slug, page index) is requested twice.
OncePerUrl ==
    \A a, b \in CatalogGetsAt(log) :
        (log[a].imprint = log[b].imprint /\ log[a].p = log[b].p) => a = b

\* C5 (as claimed): a fetch failure skips its own unit of work only and is
\* never retried, and each catalog URL (imprint, page index) is requested at
\* most once per run.
C5_Original ==
    /\ FailedImprintSkipped
    /\ OnlyFetchedPagesCount
    /\ LaterWorkStillDone
    /\ OncePerUrl

\* C5 (amended): a fetch failure skips its own unit of work only and is never
\* retried: a failed first page adds no URL and no paginated request for its
\* imprint, a failed paginated page adds no URL, the URLs accumulated are
\* unchanged, every later page and imprint is still requested absent a limit,
\* and each (position in imprints, page index) is requested at most once per
\* run, so a catalog URL is requested once per occurrence of its imprint in
\* the imprints argument.
C5_FailureSkipsOwnUnit ==
    /\ FailedImprintSkipped
    /\ OnlyFetchedPagesCount
    /\ LaterWorkStillDone
    /\ OncePerPosition

\* C5 witness: an unlimited call has returned URLs after a failed first page
\* that a later imprint's request followed, and after a failed paginated page
\* that a later successful page of the same imprint followed.
C5_Witness ==
    /\ pc = "collected"
    /\ ~Truthy(limit)
    /\ book_urls # <<>>
    /\ \E n, n2 \in CatalogGetsAt(log) :
          log[n].p = 0 /\ ~log[n].ok /\ log[n2].pos > log[n].pos
    /\ \E n, n2 \in CatalogGetsAt(log) :
          /\ log[n].p >= 1 /\ ~log[n].ok
          /\ log[n2].pos = log[n].pos /\ log[n2].p > log[n].p /\ log[n2].ok
          /\ log[n2].page.listing # <<>>

\* (pos, p, j) before (pos2, p2, j2) in imprint order, then page order, then
\* listing order.
ListedBefore(o1, o2) ==
    \/ o1.pos < o2.pos
    \/ o1.pos = o2.pos /\ o1.p < o2.p
    \/ o1.pos = o2.pos /\ o1.p = o2.p /\ o1.j < o2.j

\* C7: the entries collect_urls returns are those of the listed items, in
\* order of imprint position, then page index, then listing position: of two
\* returned entries the one listed earlier in that order comes first, and
\* each carries the URL of its item and the imprint of the page listing it.
C7_ResultOrder ==
    pc = "collected" =>
        LET o == Origins(log)
        IN  /\ Len(book_urls) <= Len(o)
            /\ \A a \in 1..Len(book_urls) :
                  /\ book_urls[a].imprint = log[CHOOSE n \in CatalogGetsAt(log) :
                        log[n].pos = o[a].pos /\ log[n].p = o[a].p].imprint
                  /\ book_urls[a].url =
                        [base |-> BASE_URL, path |-> o[a].href.path, query |-> ""]
            /\ \A a, b \in 1..Len(book_urls) : a < b => ListedBefore(o[a], o[b])

\* C7 witness: a call has returned two entries, the first listed on the
\* first page of an imprint and the second on a later page of that imprint.
C7_Witness ==
    /\ pc = "collected"
    /\ Len(book_urls) = 2
    /\ LET o == Origins(log)
       IN  o[1].pos = o[2].pos /\ o[1].p = 0 /\ o[2].p > 0

\* C8 (as claimed): between every two consecutive catalog page requests of
\* collect_urls there is a 1-second sleep, the first page of the next imprint
\* included.
C8_SleepBetweenCatalogFetches ==
    \A a, b \in CatalogGetsAt(log) :
        a < b => \E n \in (a + 1)..(b - 1) : log[n] = Sleep(CATALOG_DELAY)


\* The detail requests of h, in request order.
DetailGets(h) == SelectSeq(h, IsDetailGet)

\* The requests that yield a record: fetched, with a title element.
YieldsRecord(e) == e.ok /\ e.page.title # None

\* The position among gets of the m-th request that yields a record.
NthRecord(gets, m) ==
    CHOOSE n \in 1..Len(gets) :
        /\ YieldsRecord(gets[n])
        /\ Cardinality({ n2 \in 1..n : YieldsRecord(gets[n2]) }) = m

\* C4: scrape_books requests each entry of its input once, in input order,
\* and returns, in input order, one record for each entry whose request
\* succeeded and whose page has a title: as many records as entries, less the
\* failed requests, less the title-less pages; each record has the url and
\* imprint of its entry, and an omitted entry gets no record.
C4_ScrapeBooks ==
    pc = "scraped" =>
        LET gets == DetailGets(log)
            failed == { n \in 1..Len(gets) : ~gets[n].ok }
            titleless == { n \in 1..Len(gets) : gets[n].ok /\ gets[n].page.title = None }
        IN  /\ Len(gets) = Len(book_urls)
            /\ \A n \in 1..Len(gets) : gets[n].pos = n /\ gets[n].entry = book_urls[n]
            /\ Len(books) = Len(book_urls) - Cardinality(failed) - Cardinality(titleless)
            /\ \A m \in 1..Len(books) :
                  LET n == NthRecord(gets, m)
                  IN  /\ books[m].url = book_urls[n].url
                      /\ books[m].imprint = book_urls[n].imprint
                      /\ books[m].title = gets[n].page.title[1]

\* C4 witness: scrape_books has returned one record for an input of two equal
\* entries, the first of which had a title-less page.
C4_Witness ==
    /\ pc = "scraped"
    /\ Len(book_urls) = 2
    /\ book_urls[1] = book_urls[2]
    /\ Len(books) = 1
    /\ LET gets == DetailGets(log)
       IN  gets[1].ok /\ gets[1].page.title = None

\* C9: for an input of n entries scrape_books sleeps max(n - 1, 0) times, 0.5 s
\* each: once between every two consecutive detail requests, whatever the
\* earlier one's outcome, and not after the last.
C9_SleepsBetweenDetails ==
    pc = "scraped" =>
        LET n == Len(book_urls)
            sleeps == { x \in 1..Len(log) : IsSleep(log[x]) }
        IN  /\ Cardinality(sleeps) = (IF n >= 1 THEN n - 1 ELSE 0)
            /\ \A x \in sleeps : log[x].ms = DETAIL_DELAY
            /\ Len(log) = Len(DetailGets(log)) + Cardinality(sleeps)
            /\ \A x \in 1..Len(log) :
                  IF IsDetailGet(log[x])
                  THEN x = Len(log) \/ IsSleep(log[x + 1])
                  ELSE x > 1 /\ x < Len(log)
                       /\ IsDetailGet(log[x - 1]) /\ IsDetailGet(log[x + 1])

\* C9 witness: scrape_books has returned for two entries, the first request
\* having failed, after one sleep.
C9_Witness ==
    /\ pc = "scraped"
    /\ Len(book_urls) = 2
    /\ ~DetailGets(log)[1].ok
    /\ Cardinality({ x \in 1..Len(log) : IsSleep(log[x]) }) = 1

\* Every catalog page of the run was requested: the first page of every
\* imprint position and, after a successful first page with total T > 24, the
\* pages 1..ceil(T/24)-1.
AllCatalogPagesAttempted ==
    /\ \A pos \in 1..Len(imprints) :
          \E n \in CatalogGetsAt(log) : log[n].pos = pos /\ log[n].p = 0
    /\ \A n \in FirstPagesOkAt(log) :
          PagerTotal(log[n].page) > 24 =>
              \A m \in 1..(CeilDiv(PagerTotal(log[n].page), 24) - 1) :
                  \E n2 \in PagedGetsAt(log, log[n].pos) : log[n2].p = m

\* The exit code and the detail requests at exit: code 1 exactly when no
\* record was scraped, code 0 exactly when the output was written, and every
\* collected URL requested, in order.
ExitCodeAndDetails ==
    LET gets == DetailGets(log)
        records == { n \in 1..Len(gets) : YieldsRecord(gets[n]) }
    IN  /\ exit_code \in {Some(0), Some(1)}
        /\ exit_code = Some(1) <=> records = {}
        /\ exit_code = Some(1) <=> books = <<>>
        /\ exit_code = Some(0) <=> written
        /\ Len(gets) = Len(book_urls)
        /\ \A n \in 1..Len(gets) : gets[n].entry = book_urls[n]

C1_LimitLength ==
    (run = 2 /\ pc = "collected" /\ limit # None /\ limit[1] > 0) =>
        Len(book_urls) = Min(limit[1], Len(ref[1].result))

\* C1 witness: the limited call has returned 1 entry where the unlimited call
\* returned 2, a request having failed.
C1_Witness ==
    /\ run = 2
    /\ pc = "collected"
    /\ limit = Some(1)
    /\ ref[1].limit = None
    /\ Len(ref[1].result) = 2
    /\ Len(book_urls) = 1
    /\ \E n \in CatalogGetsAt(ref[1].log) : ~ref[1].log[n].ok

====
